---------------------------- MODULE Spec2Model ----------------------------
(***************************************************************************)
(* LittleFileSystem2 (src/LittleFileSystem2.cpp): the mbed wrapper that    *)
(* puts one recursive mutex, a block device pointer (_bd) and a            *)
(* configuration (_config) around the littlefs v2 engine.                  *)
(*                                                                         *)
(* Every public operation is a call frame on the calling thread's stack;   *)
(* a frame's pc names the place in the source the thread has reached.      *)
(* Engine calls (lfs2_mount, ...) and block-device calls (init/deinit)     *)
(* return nondeterministic results: the engine and the device are outside  *)
(* this file.                                                              *)
(***************************************************************************)
EXTENDS Integers, Sequences, FiniteSets

VARIABLES
    scope,      \* which exploration this behaviour belongs to: "conc", "life" or "err"
    errno_h,    \* the errno values of the build's <errno.h>
    ctor,       \* block_size, cache_size, lookahead_size given to the constructor
    mutex,      \* _mutex: [owner, count] (recursive)
    _bd,        \* the mounted block device, 0 = NULL
    _config,    \* struct lfs2_config _config
    _lfs,       \* engine state of the instance: is lfs2_mount in effect
    bdInit,     \* per device: successful init() calls minus deinit() calls
    heap,       \* handle id -> "free" | "file" | "dir" (new / delete)
    opened,     \* handles the callers hold: opened successfully, not yet closed
    badFree,    \* a delete of a handle that was not allocated has happened
    stack       \* per thread: the call frames, innermost last

vars == <<scope, errno_h, ctor, mutex, _bd, _config, _lfs, bdInit, heap, opened, badFree, stack>>

(***************************************************************************)
(* Bounds of the exploration.                                              *)
(***************************************************************************)
MaxInits == 2
MaxInitsFair == 1
MaxHandles == 1

AllThreads == {1, 2}
\* "conc" (Spec): two threads on one device, one engine error.
\* "life" (SpecLifecycle): one thread, two devices, two sets of constructor
\* arguments, two engine errors.
\* "err" (SpecErrors): one thread, one device, every engine error, both
\* errno tables, MaxHandles handle objects.
\* "fair" (SpecFair): as "conc", each device followed through MaxInitsFair
\* init() calls without a deinit(), only the engine calls of mount, unmount
\* and format failing.
Concurrent == scope \in {"conc", "fair"}
Threads == IF Concurrent THEN {1, 2} ELSE {1}
AllDevices == {1, 2}
Devices == IF scope = "life" THEN {1, 2} ELSE {1}
AllHandles == 1..MaxHandles
Handles == IF scope = "err" THEN AllHandles ELSE {1}

Max(a, b) == IF a > b THEN a ELSE b
Min(a, b) == IF a < b THEN a ELSE b

(***************************************************************************)
(* Engine error codes (enum lfs2_error) and the errno values of the build. *)
(***************************************************************************)
LFS2_ERR_OK == 0
LFS2_ERR_IO == -5
LFS2_ERR_NOENT == -2
LFS2_ERR_EXIST == -17
LFS2_ERR_NOTDIR == -20
LFS2_ERR_ISDIR == -21
LFS2_ERR_INVAL == -22
LFS2_ERR_NOSPC == -28
LFS2_ERR_NOMEM == -12
LFS2_ERR_CORRUPT == -84
LFS2_ERR_NOTEMPTY == -39

\* <errno.h> as the toolchain gives it: newlib, and mbed's retarget layer,
\* which redefines the values. They differ in EILSEQ.
ErrnoNewlib == [EIO |-> 5, ENOENT |-> 2, EEXIST |-> 17, ENOTDIR |-> 20, EISDIR |-> 21, EINVAL |-> 22, ENOSPC |-> 28, ENOMEM |-> 12, EILSEQ |-> 138, ENODEV |-> 19]
ErrnoRetarget == [ErrnoNewlib EXCEPT !.EILSEQ = 84]

EIO == errno_h.EIO
ENOENT == errno_h.ENOENT
EEXIST == errno_h.EEXIST
ENOTDIR == errno_h.ENOTDIR
EISDIR == errno_h.EISDIR
EINVAL == errno_h.EINVAL
ENOSPC == errno_h.ENOSPC
ENOMEM == errno_h.ENOMEM
EILSEQ == errno_h.EILSEQ
ENODEV == errno_h.ENODEV

\* A translation whose default case returns -EINVAL instead of err.
lfs2_toerror_DefaultInval(err) ==
    CASE err = LFS2_ERR_OK -> 0
      [] err = LFS2_ERR_IO -> -EIO
      [] err = LFS2_ERR_NOENT -> -ENOENT
      [] err = LFS2_ERR_EXIST -> -EEXIST
      [] err = LFS2_ERR_NOTDIR -> -ENOTDIR
      [] err = LFS2_ERR_ISDIR -> -EISDIR
      [] err = LFS2_ERR_INVAL -> -EINVAL
      [] err = LFS2_ERR_NOSPC -> -ENOSPC
      [] err = LFS2_ERR_NOMEM -> -ENOMEM
      [] err = LFS2_ERR_CORRUPT -> -EILSEQ
      [] OTHER -> -EINVAL

lfs2_toerror(err) ==
    CASE err = LFS2_ERR_OK -> 0
      [] err = LFS2_ERR_IO -> -EIO
      [] err = LFS2_ERR_NOENT -> -ENOENT
      [] err = LFS2_ERR_EXIST -> -EEXIST
      [] err = LFS2_ERR_NOTDIR -> -ENOTDIR
      [] err = LFS2_ERR_ISDIR -> -EISDIR
      [] err = LFS2_ERR_INVAL -> -EINVAL
      [] err = LFS2_ERR_NOSPC -> -ENOSPC
      [] err = LFS2_ERR_NOMEM -> -ENOMEM
      [] err = LFS2_ERR_CORRUPT -> -EILSEQ
      [] OTHER -> err

\* The nine engine errors lfs2_toerror has a case for.
ListedErrs == {LFS2_ERR_IO, LFS2_ERR_NOENT, LFS2_ERR_EXIST, LFS2_ERR_NOTDIR, LFS2_ERR_ISDIR, LFS2_ERR_INVAL, LFS2_ERR_NOSPC, LFS2_ERR_NOMEM, LFS2_ERR_CORRUPT}

\* What an engine call that returns a status can return.
EngineErrs == CASE Concurrent -> {LFS2_ERR_OK, LFS2_ERR_IO} [] scope = "life" -> {LFS2_ERR_OK, LFS2_ERR_IO, LFS2_ERR_CORRUPT} [] OTHER -> {LFS2_ERR_OK, LFS2_ERR_NOTEMPTY} \cup ListedErrs

\* What an engine call made by a path, file or directory operation can
\* return as a status. Under the progress specification these calls succeed;
\* the calls of mount, unmount and format still fail there.
OpErrs == IF scope = "fair" THEN {LFS2_ERR_OK} ELSE EngineErrs

\* How many init() calls without a deinit() a device is followed through.
InitCap == IF scope = "fair" THEN MaxInitsFair ELSE MaxInits

\* What BlockDevice::init() / deinit() can return (BD_ERROR_DEVICE_ERROR).
BD_ERROR_OK == 0
BD_ERROR_DEVICE_ERROR == -4001
BdResults == {BD_ERROR_OK, BD_ERROR_DEVICE_ERROR}

(***************************************************************************)
(* Block devices: the geometry each reports.                               *)
(***************************************************************************)
BdGeometry == [d \in AllDevices |-> IF d = 1 THEN [read_size |-> 16, program_size |-> 16, erase_size |-> 512, size |-> 32768] ELSE [read_size |-> 256, program_size |-> 256, erase_size |-> 4096, size |-> 524288]]

get_read_size(bd) == BdGeometry[bd].read_size
get_program_size(bd) == BdGeometry[bd].program_size
get_erase_size(bd) == BdGeometry[bd].erase_size
bd_size(bd) == BdGeometry[bd].size

\* Constructor arguments explored (block_size, cache_size, lookahead_size).
CtorArgs == IF scope # "life" THEN {[block_size |-> 512, cache_size |-> 64, lookahead_size |-> 64]} ELSE {[block_size |-> 512, cache_size |-> 64, lookahead_size |-> 64], [block_size |-> 8192, cache_size |-> 512, lookahead_size |-> 8]}

\* Arguments explored for a direct call of the static format().
FormatArgs == {[block_size |-> 512, cache_size |-> 64, lookahead_size |-> 64]}

\* Lines 150-154: memset, then the four configured values.
ConstructedConfig(a) == [context |-> 0, read_size |-> 0, prog_size |-> 0, block_size |-> a.block_size, block_count |-> 0, cache_size |-> a.cache_size, lookahead_size |-> a.lookahead_size]

\* Lines 179-190 (mount) and 245-256 (format): the configuration derived
\* from the stored or given values and the device. The fields are uint32;
\* every geometry explored stays far below 2^32, so nothing wraps here.
\* A block size taken from the device alone, whatever is stored.
DerivedBlockSize_Device(block_size, bd) == get_erase_size(bd)
DerivedBlockSize(block_size, bd) == Max(block_size, get_erase_size(bd))
DerivedBlockCount(block_size, bd) == bd_size(bd) \div DerivedBlockSize(block_size, bd)
DerivedCacheSize(cache_size, bd) == Max(cache_size, get_program_size(bd))
DerivedLookahead(lookahead_size, block_size, bd) == Min(lookahead_size, 8 * ((DerivedBlockCount(block_size, bd) + 63) \div 64))

DerivedConfig(c, bd) == [context |-> bd, read_size |-> get_read_size(bd), prog_size |-> get_program_size(bd), block_size |-> DerivedBlockSize(c.block_size, bd), block_count |-> DerivedBlockCount(c.block_size, bd), cache_size |-> DerivedCacheSize(c.cache_size, bd), lookahead_size |-> DerivedLookahead(c.lookahead_size, c.block_size, bd)]

(***************************************************************************)
(* Call frames.                                                            *)
(***************************************************************************)
NoArgs == [block_size |-> 0, cache_size |-> 0, lookahead_size |-> 0]

\* Every frame has fn: the function; pc: the place reached; bd: the
\* BlockDevice* argument; err, res: the locals of that name (res is the value
\* returned once pc is "done"); base: how often the thread held _mutex when
\* the call began; h: the handle (f / d); out: what the call has done to the
\* caller's output object (*file, *dir, *ent, *st of stat); calls: the device
\* and engine calls this call of mount, unmount or format has made, and the
\* member functions this call of reformat has called, in order, each with
\* what it returned.
\* A format frame also has args, its size arguments; a statvfs frame has st,
\* the caller's struct statvfs, and cfg, the block_size and block_count that
\* _config held when lfs2_fs_size returned; a mount, unmount or reformat frame
\* has pre, _bd and _config as the call found them when it got the lock; a
\* reformat frame has arg, the bd it was called with (its bd is the local
\* variable, which line 280 can replace).
Call(fn, res) == [fn |-> fn, res |-> res]
NoCfg == [block_size |-> 0, block_count |-> 0]
NoStatvfs == [f_bsize |-> 0, f_frsize |-> 0, f_blocks |-> 0, f_bfree |-> 0, f_bavail |-> 0, wrapped |-> FALSE]
NoPre == [bd |-> 0, config |-> ConstructedConfig(NoArgs)]
Found == [bd |-> _bd, config |-> _config]
NewFrame(fn, pc, bd, base) == [fn |-> fn, pc |-> pc, bd |-> bd, err |-> 0, res |-> 0, base |-> base, h |-> 0, out |-> "unchanged", calls |-> <<>>]
LifecycleFrame(fn, bd, base) == [fn |-> fn, pc |-> "lock", bd |-> bd, err |-> 0, res |-> 0, base |-> base, h |-> 0, out |-> "unchanged", calls |-> <<>>, pre |-> NoPre]
FormatFrame(bd, base, a) == [fn |-> "format", pc |-> "init", bd |-> bd, err |-> 0, res |-> 0, base |-> base, h |-> 0, out |-> "unchanged", calls |-> <<>>, args |-> a]
StatvfsFrame(base) == [fn |-> "statvfs", pc |-> "lock", bd |-> 0, err |-> 0, res |-> 0, base |-> base, h |-> 0, out |-> "unchanged", calls |-> <<>>, st |-> NoStatvfs, cfg |-> NoCfg]
ReformatFrame(bd, base) == [fn |-> "reformat", pc |-> "lock", bd |-> bd, err |-> 0, res |-> 0, base |-> base, h |-> 0, out |-> "unchanged", calls |-> <<>>, pre |-> NoPre, arg |-> bd]

Depth(t) == Len(stack[t])
Idle(t) == stack[t] = <<>>
\* The destructor's frame stays on its thread's stack: the object is gone.
Destroyed == \E u \in AllThreads : stack[u] # <<>> /\ stack[u][1].fn = "~LittleFileSystem2"
\* A thread can call a member function when it is in no call and the object lives.
Callable(t) == t \in Threads /\ Idle(t) /\ ~Destroyed
Top(t) == stack[t][Depth(t)]
Running(t, fn) == stack[t] # <<>> /\ Top(t).fn = fn
At(t, fn, pc) == stack[t] # <<>> /\ Top(t).fn = fn /\ Top(t).pc = pc
SetTop(t, f) == [stack EXCEPT ![t][Depth(t)] = f]
Push(t, caller, callee) == [stack EXCEPT ![t] = Append([@ EXCEPT ![Depth(t)] = caller], callee)]
Done(f, res) == [f EXCEPT !.pc = "done", !.res = res]

(***************************************************************************)
(* _mutex (PlatformMutex, recursive).                                      *)
(***************************************************************************)
Holds(t) == IF mutex.owner = t THEN mutex.count ELSE 0
\* A mutex that does not exclude: lock() succeeds whoever holds it.
CanLock_NotExclusive(t) == TRUE
\* A mutex that is not recursive: lock() waits even for the thread's own hold.
CanLock_NotRecursive(t) == mutex.owner = 0
CanLock(t) == mutex.owner \in {0, t}
AfterLock(t) == [owner |-> t, count |-> mutex.count + 1]
\* An unlock that frees the mutex however often the thread holds it.
AfterUnlock_NotCounted(t) == [owner |-> 0, count |-> 0]
AfterUnlock(t) == IF mutex.count = 1 THEN [owner |-> 0, count |-> 0] ELSE [owner |-> mutex.owner, count |-> mutex.count - 1]

(***************************************************************************)
(* The state after construction with bd = NULL. A constructor given a      *)
(* device is this state followed by mount(bd) (line 156).                  *)
(***************************************************************************)
InitCommon ==
    /\ ctor \in CtorArgs
    /\ mutex = [owner |-> 0, count |-> 0]
    /\ _bd = 0
    /\ _config = ConstructedConfig(ctor)
    /\ _lfs = [mounted |-> FALSE]
    /\ bdInit = [d \in AllDevices |-> 0]
    /\ heap = [h \in AllHandles |-> "free"]
    /\ opened = {}
    /\ badFree = FALSE
    /\ stack = [t \in AllThreads |-> <<>>]

Init ==
    /\ scope = "conc"
    /\ errno_h = ErrnoNewlib
    /\ InitCommon

InitLifecycle ==
    /\ scope = "life"
    /\ errno_h = ErrnoNewlib
    /\ InitCommon

InitErrors ==
    /\ scope = "err"
    /\ errno_h \in {ErrnoNewlib, ErrnoRetarget}
    /\ InitCommon

InitFair ==
    /\ scope = "fair"
    /\ errno_h = ErrnoNewlib
    /\ InitCommon

(***************************************************************************)
(* mount (lines 166-203).                                                  *)
(***************************************************************************)
mount_call(t, bd) ==
    /\ Callable(t)
    /\ stack' = [stack EXCEPT ![t] = <<LifecycleFrame("mount", bd, Holds(t))>>]
    /\ UNCHANGED <<scope, errno_h, ctor, mutex, _bd, _config, _lfs, bdInit, heap, opened, badFree>>

\* 168: _mutex.lock()
mount_lock(t) ==
    /\ At(t, "mount", "lock")
    /\ CanLock(t)
    /\ mutex' = AfterLock(t)
    /\ stack' = SetTop(t, [Top(t) EXCEPT !.pc = "init", !.pre = Found])
    /\ UNCHANGED <<scope, errno_h, ctor, _bd, _config, _lfs, bdInit, heap, opened, badFree>>

\* A mount whose early return on a failed init() forgets the unlock.
mount_init_NoUnlock(t) ==
    /\ At(t, "mount", "init")
    /\ \E e \in BdResults :
        LET f == Top(t) IN
        IF e = BD_ERROR_OK
        THEN /\ bdInit[f.bd] < InitCap
             /\ bdInit' = [bdInit EXCEPT ![f.bd] = @ + 1]
             /\ _bd' = f.bd
             /\ stack' = SetTop(t, [f EXCEPT !.pc = "config", !.err = e, !.calls = Append(@, Call("init", e))])
        ELSE /\ bdInit' = bdInit
             /\ _bd' = 0
             /\ stack' = SetTop(t, Done([f EXCEPT !.err = e, !.calls = Append(@, Call("init", e))], e))
    /\ UNCHANGED <<scope, errno_h, ctor, mutex, _config, _lfs, heap, opened, badFree>>

\* 170-177: _bd = bd; err = _bd->init(); on failure _bd = NULL, unlock, return err
mount_init(t) ==
    /\ At(t, "mount", "init")
    /\ \E e \in BdResults :
        LET f == Top(t) IN
        IF e = BD_ERROR_OK
        THEN /\ bdInit[f.bd] < InitCap
             /\ bdInit' = [bdInit EXCEPT ![f.bd] = @ + 1]
             /\ _bd' = f.bd
             /\ mutex' = mutex
             /\ stack' = SetTop(t, [f EXCEPT !.pc = "config", !.err = e, !.calls = Append(@, Call("init", e))])
        ELSE /\ bdInit' = bdInit
             /\ _bd' = 0
             /\ mutex' = AfterUnlock(t)
             /\ stack' = SetTop(t, Done([f EXCEPT !.err = e, !.calls = Append(@, Call("init", e))], e))
    /\ UNCHANGED <<scope, errno_h, ctor, _config, _lfs, heap, opened, badFree>>

\* 179-192: derive the configuration from the stored one and the device,
\* then enter lfs2_mount(&_lfs, &_config)
mount_config(t) ==
    /\ At(t, "mount", "config")
    /\ _config' = DerivedConfig(_config, Top(t).bd)
    /\ stack' = SetTop(t, [Top(t) EXCEPT !.pc = "engine"])
    /\ UNCHANGED <<scope, errno_h, ctor, mutex, _bd, _lfs, bdInit, heap, opened, badFree>>

\* 192-202: lfs2_mount returns; on failure _bd = NULL, unlock, return the
\* translated error; else unlock, return 0
mount_engine_ret(t) ==
    /\ At(t, "mount", "engine")
    /\ \E e \in EngineErrs :
        /\ _lfs' = [mounted |-> e = LFS2_ERR_OK]
        /\ _bd' = IF e # 0 THEN 0 ELSE _bd
        /\ stack' = SetTop(t, Done([Top(t) EXCEPT !.err = e, !.calls = Append(@, Call("lfs2_mount", e))], IF e # 0 THEN lfs2_toerror(e) ELSE 0))
    /\ mutex' = AfterUnlock(t)
    /\ UNCHANGED <<scope, errno_h, ctor, _config, bdInit, heap, opened, badFree>>

(***************************************************************************)
(* unmount (lines 205-227).                                                *)
(***************************************************************************)
unmount_call(t) ==
    /\ Callable(t)
    /\ stack' = [stack EXCEPT ![t] = <<LifecycleFrame("unmount", 0, Holds(t))>>]
    /\ UNCHANGED <<scope, errno_h, ctor, mutex, _bd, _config, _lfs, bdInit, heap, opened, badFree>>

\* 207-211: lock; res = 0; if (_bd) enter lfs2_unmount(&_lfs)
unmount_lock(t) ==
    /\ At(t, "unmount", "lock")
    /\ CanLock(t)
    /\ mutex' = AfterLock(t)
    /\ stack' = SetTop(t, [Top(t) EXCEPT !.pc = IF _bd # 0 THEN "engine" ELSE "unlock", !.res = 0, !.pre = Found])
    /\ UNCHANGED <<scope, errno_h, ctor, _bd, _config, _lfs, bdInit, heap, opened, badFree>>

\* An unmount that returns at once when lfs2_unmount fails, without deinit().
unmount_engine_ret_SkipDeinit(t) ==
    /\ At(t, "unmount", "engine")
    /\ \E e \in EngineErrs :
        stack' = SetTop(t, [Top(t) EXCEPT !.pc = IF e # 0 THEN "unlock" ELSE "deinit", !.err = e, !.res = IF e # 0 /\ @ = 0 THEN lfs2_toerror(e) ELSE @, !.calls = Append(@, Call("lfs2_unmount", e))])
    /\ _lfs' = [mounted |-> FALSE]
    /\ UNCHANGED <<scope, errno_h, ctor, mutex, _bd, _config, bdInit, heap, opened, badFree>>

\* 211-214: lfs2_unmount returns; if (err && !res) res = lfs2_toerror(err)
unmount_engine_ret(t) ==
    /\ At(t, "unmount", "engine")
    /\ \E e \in EngineErrs :
        stack' = SetTop(t, [Top(t) EXCEPT !.pc = "deinit", !.err = e, !.res = IF e # 0 /\ @ = 0 THEN lfs2_toerror(e) ELSE @, !.calls = Append(@, Call("lfs2_unmount", e))])
    /\ _lfs' = [mounted |-> FALSE]
    /\ UNCHANGED <<scope, errno_h, ctor, mutex, _bd, _config, bdInit, heap, opened, badFree>>

\* An unmount that keeps _bd when deinit() fails.
unmount_deinit_KeepBd(t) ==
    /\ At(t, "unmount", "deinit")
    /\ \E e \in BdResults :
        /\ stack' = SetTop(t, [Top(t) EXCEPT !.pc = "unlock", !.err = e, !.res = IF e # 0 /\ @ = 0 THEN e ELSE @, !.calls = Append(@, Call("deinit", e))])
        /\ _bd' = IF e # 0 THEN _bd ELSE 0
    /\ bdInit' = [bdInit EXCEPT ![_bd] = @ - 1]
    /\ UNCHANGED <<scope, errno_h, ctor, mutex, _config, _lfs, heap, opened, badFree>>

\* 216-221: err = _bd->deinit(); if (err && !res) res = err; _bd = NULL
unmount_deinit(t) ==
    /\ At(t, "unmount", "deinit")
    /\ \E e \in BdResults :
        stack' = SetTop(t, [Top(t) EXCEPT !.pc = "unlock", !.err = e, !.res = IF e # 0 /\ @ = 0 THEN e ELSE @, !.calls = Append(@, Call("deinit", e))])
    /\ bdInit' = [bdInit EXCEPT ![_bd] = @ - 1]
    /\ _bd' = 0
    /\ UNCHANGED <<scope, errno_h, ctor, mutex, _config, _lfs, heap, opened, badFree>>

\* 224-226: unlock; return res
unmount_unlock(t) ==
    /\ At(t, "unmount", "unlock")
    /\ mutex' = AfterUnlock(t)
    /\ stack' = SetTop(t, Done(Top(t), Top(t).res))
    /\ UNCHANGED <<scope, errno_h, ctor, _bd, _config, _lfs, bdInit, heap, opened, badFree>>

(***************************************************************************)
(* format (lines 229-272): static, takes no lock of its own.               *)
(***************************************************************************)
format_call(t, bd, a) ==
    /\ t \in Threads
    /\ Idle(t)
    /\ stack' = [stack EXCEPT ![t] = <<FormatFrame(bd, Holds(t), a)>>]
    /\ UNCHANGED <<scope, errno_h, ctor, mutex, _bd, _config, _lfs, bdInit, heap, opened, badFree>>

\* 235-258: err = bd->init(); on failure return err; else build the local
\* configuration and enter lfs2_format on the local lfs2_t
format_init(t) ==
    /\ At(t, "format", "init")
    /\ \E e \in BdResults :
        LET f == Top(t) IN
        IF e = BD_ERROR_OK
        THEN /\ bdInit[f.bd] < InitCap
             /\ bdInit' = [bdInit EXCEPT ![f.bd] = @ + 1]
             /\ stack' = SetTop(t, [f EXCEPT !.pc = "engine", !.err = e, !.calls = Append(@, Call("init", e))])
        ELSE /\ bdInit' = bdInit
             /\ stack' = SetTop(t, Done([f EXCEPT !.err = e, !.calls = Append(@, Call("init", e))], e))
    /\ UNCHANGED <<scope, errno_h, ctor, mutex, _bd, _config, _lfs, heap, opened, badFree>>

\* 258-262: lfs2_format returns; on failure return the translated error
format_engine_ret(t) ==
    /\ At(t, "format", "engine")
    /\ \E e \in EngineErrs :
        stack' = SetTop(t, IF e # 0 THEN Done([Top(t) EXCEPT !.err = e, !.calls = Append(@, Call("lfs2_format", e))], lfs2_toerror(e)) ELSE [Top(t) EXCEPT !.pc = "deinit", !.err = e, !.calls = Append(@, Call("lfs2_format", e))])
    /\ UNCHANGED <<scope, errno_h, ctor, mutex, _bd, _config, _lfs, bdInit, heap, opened, badFree>>

\* 264-271: err = bd->deinit(); return err, or 0
format_deinit(t) ==
    /\ At(t, "format", "deinit")
    /\ \E e \in BdResults :
        stack' = SetTop(t, Done([Top(t) EXCEPT !.err = e, !.calls = Append(@, Call("deinit", e))], e))
    /\ bdInit' = [bdInit EXCEPT ![Top(t).bd] = @ - 1]
    /\ UNCHANGED <<scope, errno_h, ctor, mutex, _bd, _config, _lfs, heap, opened, badFree>>

(***************************************************************************)
(* reformat (lines 274-318): unmount, format, mount under one hold of the  *)
(* mutex; the three calls are frames pushed on the thread's stack.         *)
(***************************************************************************)
reformat_call(t, bd) ==
    /\ Callable(t)
    /\ stack' = [stack EXCEPT ![t] = <<ReformatFrame(bd, Holds(t))>>]
    /\ UNCHANGED <<scope, errno_h, ctor, mutex, _bd, _config, _lfs, bdInit, heap, opened, badFree>>

\* 276-283: lock; if (_bd) { if (!bd) bd = _bd; err = unmount(); ...
reformat_lock(t) ==
    /\ At(t, "reformat", "lock")
    /\ CanLock(t)
    /\ mutex' = AfterLock(t)
    /\ LET f == Top(t) IN
        IF _bd # 0
        THEN stack' = Push(t, [f EXCEPT !.pc = "after_unmount", !.bd = IF f.bd = 0 THEN _bd ELSE f.bd, !.pre = Found], LifecycleFrame("unmount", 0, mutex'.count))
        ELSE stack' = SetTop(t, [f EXCEPT !.pc = "check_bd", !.pre = Found])
    /\ UNCHANGED <<scope, errno_h, ctor, _bd, _config, _lfs, bdInit, heap, opened, badFree>>

\* A reformat that goes on to format whatever unmount returned.
reformat_after_unmount_Continue(t) ==
    /\ At(t, "reformat", "after_unmount")
    /\ stack' = SetTop(t, [Top(t) EXCEPT !.pc = "check_bd"])
    /\ UNCHANGED <<scope, errno_h, ctor, mutex, _bd, _config, _lfs, bdInit, heap, opened, badFree>>

\* 284-289: if (err) { unlock; return err; }
reformat_after_unmount(t) ==
    /\ At(t, "reformat", "after_unmount")
    /\ LET f == Top(t) IN
        IF f.err # 0
        THEN /\ mutex' = AfterUnlock(t)
             /\ stack' = SetTop(t, Done(f, f.err))
        ELSE /\ mutex' = mutex
             /\ stack' = SetTop(t, [f EXCEPT !.pc = "check_bd"])
    /\ UNCHANGED <<scope, errno_h, ctor, _bd, _config, _lfs, bdInit, heap, opened, badFree>>

\* 291-301: if (!bd) { unlock; return -ENODEV; } err = format(bd, _config...)
reformat_check_bd(t) ==
    /\ At(t, "reformat", "check_bd")
    /\ LET f == Top(t) IN
        IF f.bd = 0
        THEN /\ mutex' = AfterUnlock(t)
             /\ stack' = SetTop(t, Done(f, -ENODEV))
        ELSE /\ mutex' = mutex
             /\ stack' = Push(t, [f EXCEPT !.pc = "after_format"], FormatFrame(f.bd, mutex.count, [block_size |-> _config.block_size, cache_size |-> _config.cache_size, lookahead_size |-> _config.lookahead_size]))
    /\ UNCHANGED <<scope, errno_h, ctor, _bd, _config, _lfs, bdInit, heap, opened, badFree>>

\* 302-308: if (err) { unlock; return err; } err = mount(bd)
reformat_after_format(t) ==
    /\ At(t, "reformat", "after_format")
    /\ LET f == Top(t) IN
        IF f.err # 0
        THEN /\ mutex' = AfterUnlock(t)
             /\ stack' = SetTop(t, Done(f, f.err))
        ELSE /\ mutex' = mutex
             /\ stack' = Push(t, [f EXCEPT !.pc = "after_mount"], LifecycleFrame("mount", f.bd, mutex.count))
    /\ UNCHANGED <<scope, errno_h, ctor, _bd, _config, _lfs, bdInit, heap, opened, badFree>>

\* 309-317: unlock; return err, or 0
reformat_after_mount(t) ==
    /\ At(t, "reformat", "after_mount")
    /\ mutex' = AfterUnlock(t)
    /\ stack' = SetTop(t, Done(Top(t), Top(t).err))
    /\ UNCHANGED <<scope, errno_h, ctor, _bd, _config, _lfs, bdInit, heap, opened, badFree>>

(***************************************************************************)
(* The operations that are one engine call under the lock. Each is three   *)
(* steps: the call, the lock with the entry into the engine, and the       *)
(* engine's return with the unlock and the operation's own return.         *)
(***************************************************************************)
\* Results of an engine call that returns a count or position, or an error.
EngineCounts == IF scope = "err" THEN {0, 1, 84} ELSE {1}
EngineValues == (OpErrs \ {LFS2_ERR_OK}) \cup EngineCounts

\* Handles the caller may pass: open, of the right kind, and (the caller's
\* duty) not in use by a call in progress.
InUse(h) == \E u \in AllThreads : \E i \in 1..Len(stack[u]) : stack[u][i].h = h
Usable(kind) == {h \in opened : heap[h] = kind /\ ~InUse(h)}

OpCall(t, fn, h) ==
    /\ Callable(t)
    /\ stack' = [stack EXCEPT ![t] = <<[NewFrame(fn, "lock", 0, Holds(t)) EXCEPT !.h = h]>>]
    /\ UNCHANGED <<scope, errno_h, ctor, mutex, _bd, _config, _lfs, bdInit, heap, opened, badFree>>

\* An operation that enters the engine without taking the lock.
EngineLock_NoLock(t, fn) ==
    /\ At(t, fn, "lock")
    /\ stack' = SetTop(t, [Top(t) EXCEPT !.pc = "engine"])
    /\ UNCHANGED <<scope, errno_h, ctor, mutex, _bd, _config, _lfs, bdInit, heap, opened, badFree>>

\* _mutex.lock(); then the engine call begins
EngineLock(t, fn) ==
    /\ At(t, fn, "lock")
    /\ CanLock(t)
    /\ mutex' = AfterLock(t)
    /\ stack' = SetTop(t, [Top(t) EXCEPT !.pc = "engine"])
    /\ UNCHANGED <<scope, errno_h, ctor, _bd, _config, _lfs, bdInit, heap, opened, badFree>>

\* int err = lfs2_x(...); _mutex.unlock(); return lfs2_toerror(err);
StatusRet(t, fn) ==
    /\ At(t, fn, "engine")
    /\ \E e \in OpErrs :
        stack' = SetTop(t, Done([Top(t) EXCEPT !.err = e], lfs2_toerror(e)))
    /\ mutex' = AfterUnlock(t)
    /\ UNCHANGED <<scope, errno_h, ctor, _bd, _config, _lfs, bdInit, heap, opened, badFree>>

\* res = lfs2_x(...); _mutex.unlock(); return lfs2_toerror(res);
ValueRet(t, fn) ==
    /\ At(t, fn, "engine")
    /\ \E r \in EngineValues :
        stack' = SetTop(t, Done([Top(t) EXCEPT !.err = r], lfs2_toerror(r)))
    /\ mutex' = AfterUnlock(t)
    /\ UNCHANGED <<scope, errno_h, ctor, _bd, _config, _lfs, bdInit, heap, opened, badFree>>

\* lfs2_x(...); _mutex.unlock(); (a void operation)
VoidRet(t, fn) ==
    /\ At(t, fn, "engine")
    /\ stack' = SetTop(t, Done(Top(t), 0))
    /\ mutex' = AfterUnlock(t)
    /\ UNCHANGED <<scope, errno_h, ctor, _bd, _config, _lfs, bdInit, heap, opened, badFree>>

\* lines 320-328
remove_call(t) == OpCall(t, "remove", 0)
remove(t) == Running(t, "remove") /\ (EngineLock(t, "remove") \/ StatusRet(t, "remove"))
\* lines 330-338
rename_call(t) == OpCall(t, "rename", 0)
rename(t) == Running(t, "rename") /\ (EngineLock(t, "rename") \/ StatusRet(t, "rename"))
\* lines 340-348
mkdir_call(t) == OpCall(t, "mkdir", 0)
mkdir(t) == Running(t, "mkdir") /\ (EngineLock(t, "mkdir") \/ StatusRet(t, "mkdir"))
\* lines 415-424
file_read_call(t) == \E h \in Usable("file") : OpCall(t, "file_read", h)
file_read(t) == Running(t, "file_read") /\ (EngineLock(t, "file_read") \/ ValueRet(t, "file_read"))
\* lines 426-435
file_write_call(t) == \E h \in Usable("file") : OpCall(t, "file_write", h)
file_write(t) == Running(t, "file_write") /\ (EngineLock(t, "file_write") \/ ValueRet(t, "file_write"))
\* lines 437-446
file_sync_call(t) == \E h \in Usable("file") : OpCall(t, "file_sync", h)
file_sync(t) == Running(t, "file_sync") /\ (EngineLock(t, "file_sync") \/ StatusRet(t, "file_sync"))
\* lines 448-457
file_seek_call(t) == \E h \in Usable("file") : OpCall(t, "file_seek", h)
file_seek(t) == Running(t, "file_seek") /\ (EngineLock(t, "file_seek") \/ ValueRet(t, "file_seek"))
\* lines 459-468
file_tell_call(t) == \E h \in Usable("file") : OpCall(t, "file_tell", h)
file_tell(t) == Running(t, "file_tell") /\ (EngineLock(t, "file_tell") \/ ValueRet(t, "file_tell"))
\* lines 470-479
file_size_call(t) == \E h \in Usable("file") : OpCall(t, "file_size", h)
file_size(t) == Running(t, "file_size") /\ (EngineLock(t, "file_size") \/ ValueRet(t, "file_size"))
\* lines 481-490
file_truncate_call(t) == \E h \in Usable("file") : OpCall(t, "file_truncate", h)
file_truncate(t) == Running(t, "file_truncate") /\ (EngineLock(t, "file_truncate") \/ StatusRet(t, "file_truncate"))
\* lines 538-546
dir_seek_call(t) == \E h \in Usable("dir") : OpCall(t, "dir_seek", h)
dir_seek(t) == Running(t, "dir_seek") /\ (EngineLock(t, "dir_seek") \/ VoidRet(t, "dir_seek"))
\* lines 548-557
dir_tell_call(t) == \E h \in Usable("dir") : OpCall(t, "dir_tell", h)
dir_tell(t) == Running(t, "dir_tell") /\ (EngineLock(t, "dir_tell") \/ ValueRet(t, "dir_tell"))
\* lines 559-567
dir_rewind_call(t) == \E h \in Usable("dir") : OpCall(t, "dir_rewind", h)
dir_rewind(t) == Running(t, "dir_rewind") /\ (EngineLock(t, "dir_rewind") \/ VoidRet(t, "dir_rewind"))

(***************************************************************************)
(* stat (lines 350-361): the caller's *st is written after the unlock,     *)
(* from info, whether or not lfs2_stat filled info in.                     *)
(***************************************************************************)
\* 355-357: lfs2_stat returns; unlock
stat_ret(t) ==
    /\ At(t, "stat", "engine")
    /\ \E e \in OpErrs :
        stack' = SetTop(t, [Top(t) EXCEPT !.pc = "fill", !.err = e])
    /\ mutex' = AfterUnlock(t)
    /\ UNCHANGED <<scope, errno_h, ctor, _bd, _config, _lfs, bdInit, heap, opened, badFree>>

\* 358-360: st->st_size = info.size; st->st_mode = lfs2_tomode(info.type);
\* info is the engine's when lfs2_stat succeeded and indeterminate otherwise
stat_fill(t) ==
    /\ At(t, "stat", "fill")
    /\ stack' = SetTop(t, Done([Top(t) EXCEPT !.out = IF Top(t).err = 0 THEN "engine" ELSE "indeterminate"], lfs2_toerror(Top(t).err)))
    /\ UNCHANGED <<scope, errno_h, ctor, mutex, _bd, _config, _lfs, bdInit, heap, opened, badFree>>

stat_call(t) == OpCall(t, "stat", 0)
stat(t) == Running(t, "stat") /\ (EngineLock(t, "stat") \/ stat_ret(t) \/ stat_fill(t))

(***************************************************************************)
(* statvfs (lines 363-384): _config is read after the unlock.              *)
(***************************************************************************)
\* What lfs2_fs_size can return: an error, or the number of blocks in use
\* (a best effort that can exceed block_count).
FsSizes == IF Concurrent THEN {2} ELSE {2, 2000}
FsSizeResults == (OpErrs \ {LFS2_ERR_OK}) \cup FsSizes

\* 365: memset(st, 0, sizeof(struct statvfs)), before the lock
statvfs_call(t) ==
    /\ Callable(t)
    /\ stack' = [stack EXCEPT ![t] = <<StatvfsFrame(Holds(t))>>]
    /\ UNCHANGED <<scope, errno_h, ctor, mutex, _bd, _config, _lfs, bdInit, heap, opened, badFree>>

\* 370-375: in_use = lfs2_fs_size(&_lfs); unlock; if (in_use < 0) return in_use;
statvfs_ret(t) ==
    /\ At(t, "statvfs", "engine")
    /\ \E in_use \in FsSizeResults :
        stack' = SetTop(t, IF in_use < 0 THEN Done([Top(t) EXCEPT !.err = in_use], in_use) ELSE [Top(t) EXCEPT !.pc = "read_bsize", !.err = in_use, !.cfg = [block_size |-> _config.block_size, block_count |-> _config.block_count]])
    /\ mutex' = AfterUnlock(t)
    /\ UNCHANGED <<scope, errno_h, ctor, _bd, _config, _lfs, bdInit, heap, opened, badFree>>

\* 377-378: f_bsize = f_frsize = _config.block_size
statvfs_read_bsize(t) ==
    /\ At(t, "statvfs", "read_bsize")
    /\ stack' = SetTop(t, [Top(t) EXCEPT !.pc = "read_blocks", !.st.f_bsize = _config.block_size, !.st.f_frsize = _config.block_size])
    /\ UNCHANGED <<scope, errno_h, ctor, mutex, _bd, _config, _lfs, bdInit, heap, opened, badFree>>

\* 379-383: f_blocks = block_count; f_bfree = f_bavail = block_count - in_use
\* (unsigned: wrapped says 2^32 is to be added to the difference); return 0
statvfs_read_blocks(t) ==
    /\ At(t, "statvfs", "read_blocks")
    /\ LET f == Top(t)
           free == _config.block_count - f.err
       IN stack' = SetTop(t, Done([f EXCEPT !.st.f_blocks = _config.block_count, !.st.f_bfree = free, !.st.f_bavail = free, !.st.wrapped = free < 0], 0))
    /\ UNCHANGED <<scope, errno_h, ctor, mutex, _bd, _config, _lfs, bdInit, heap, opened, badFree>>

statvfs(t) == Running(t, "statvfs") /\ (EngineLock(t, "statvfs") \/ statvfs_ret(t) \/ statvfs_read_bsize(t) \/ statvfs_read_blocks(t))

(***************************************************************************)
(* file_open / file_close (lines 387-413), dir_open / dir_close (lines     *)
(* 494-520): the handle object is allocated before the lock and freed      *)
(* after the unlock.                                                       *)
(***************************************************************************)
\* A delete that is forgotten.
Delete_Forgotten(h) == heap
Delete(h) == [heap EXCEPT ![h] = "free"]

\* 389 / 496: f = new lfs2_file_t (d = new lfs2_dir_t); the handle objects
\* are interchangeable, so new hands out the lowest free one
open_call(t, fn, kind) ==
    /\ Callable(t)
    /\ \E h \in Handles :
        /\ heap[h] = "free"
        /\ \A g \in Handles : heap[g] = "free" => h <= g
        /\ heap' = [heap EXCEPT ![h] = kind]
        /\ stack' = [stack EXCEPT ![t] = <<[NewFrame(fn, "lock", 0, Holds(t)) EXCEPT !.h = h]>>]
    /\ UNCHANGED <<scope, errno_h, ctor, mutex, _bd, _config, _lfs, bdInit, opened, badFree>>

\* 392-394 / 499-501: the engine's open returns; unlock
open_ret(t, fn) ==
    /\ At(t, fn, "engine")
    /\ \E e \in OpErrs :
        stack' = SetTop(t, [Top(t) EXCEPT !.pc = "finish", !.err = e])
    /\ mutex' = AfterUnlock(t)
    /\ UNCHANGED <<scope, errno_h, ctor, _bd, _config, _lfs, bdInit, heap, opened, badFree>>

\* 395-400 / 502-507: if (!err) *file = f; else delete f; return lfs2_toerror(err)
open_finish(t, fn) ==
    /\ At(t, fn, "finish")
    /\ LET f == Top(t) IN
        IF f.err = 0
        THEN /\ opened' = opened \cup {f.h}
             /\ heap' = heap
             /\ badFree' = badFree
             /\ stack' = SetTop(t, Done([f EXCEPT !.out = "assigned", !.h = 0], 0))
        ELSE /\ opened' = opened
             /\ heap' = Delete(f.h)
             /\ badFree' = (badFree \/ heap[f.h] = "free")
             /\ stack' = SetTop(t, Done([f EXCEPT !.h = 0], lfs2_toerror(f.err)))
    /\ UNCHANGED <<scope, errno_h, ctor, mutex, _bd, _config, _lfs, bdInit>>

\* 408-410 / 515-517: the engine's close returns; unlock
close_ret(t, fn) ==
    /\ At(t, fn, "engine")
    /\ \E e \in OpErrs :
        stack' = SetTop(t, [Top(t) EXCEPT !.pc = "delete", !.err = e])
    /\ mutex' = AfterUnlock(t)
    /\ UNCHANGED <<scope, errno_h, ctor, _bd, _config, _lfs, bdInit, heap, opened, badFree>>

\* 411-412 / 518-519: delete f; return lfs2_toerror(err)
close_delete(t, fn) ==
    /\ At(t, fn, "delete")
    /\ LET f == Top(t) IN
        /\ heap' = Delete(f.h)
        /\ badFree' = (badFree \/ heap[f.h] = "free")
        /\ opened' = opened \ {f.h}
        /\ stack' = SetTop(t, Done([f EXCEPT !.h = 0], lfs2_toerror(f.err)))
    /\ UNCHANGED <<scope, errno_h, ctor, mutex, _bd, _config, _lfs, bdInit>>

file_open_call(t) == open_call(t, "file_open", "file")
file_open(t) == Running(t, "file_open") /\ (EngineLock(t, "file_open") \/ open_ret(t, "file_open") \/ open_finish(t, "file_open"))
file_close_call(t) == \E h \in Usable("file") : OpCall(t, "file_close", h)
file_close(t) == Running(t, "file_close") /\ (EngineLock(t, "file_close") \/ close_ret(t, "file_close") \/ close_delete(t, "file_close"))
dir_open_call(t) == open_call(t, "dir_open", "dir")
dir_open(t) == Running(t, "dir_open") /\ (EngineLock(t, "dir_open") \/ open_ret(t, "dir_open") \/ open_finish(t, "dir_open"))
dir_close_call(t) == \E h \in Usable("dir") : OpCall(t, "dir_close", h)
dir_close(t) == Running(t, "dir_close") /\ (EngineLock(t, "dir_close") \/ close_ret(t, "dir_close") \/ close_delete(t, "dir_close"))

(***************************************************************************)
(* dir_read (lines 522-536): *ent is written after the unlock, only when   *)
(* the engine returned an entry.                                           *)
(***************************************************************************)
DirReadResults == (OpErrs \ {LFS2_ERR_OK}) \cup {0, 1}

\* 528-530: res = lfs2_dir_read(&_lfs, d, &info); unlock
dir_read_ret(t) ==
    /\ At(t, "dir_read", "engine")
    /\ \E r \in DirReadResults :
        stack' = SetTop(t, [Top(t) EXCEPT !.pc = "fill", !.err = r])
    /\ mutex' = AfterUnlock(t)
    /\ UNCHANGED <<scope, errno_h, ctor, _bd, _config, _lfs, bdInit, heap, opened, badFree>>

\* 531-535: if (res == 1) { ent->d_type = ...; strcpy(ent->d_name, ...); } return lfs2_toerror(res)
dir_read_fill(t) ==
    /\ At(t, "dir_read", "fill")
    /\ stack' = SetTop(t, Done([Top(t) EXCEPT !.out = IF Top(t).err = 1 THEN "engine" ELSE "unchanged"], lfs2_toerror(Top(t).err)))
    /\ UNCHANGED <<scope, errno_h, ctor, mutex, _bd, _config, _lfs, bdInit, heap, opened, badFree>>

dir_read_call(t) == \E h \in Usable("dir") : OpCall(t, "dir_read", h)
dir_read(t) == Running(t, "dir_read") /\ (EngineLock(t, "dir_read") \/ dir_read_ret(t) \/ dir_read_fill(t))

(***************************************************************************)
(* ~LittleFileSystem2 (lines 160-164): unmount(), a nop if unmounted. The  *)
(* application destroys the object when no other call is in progress.      *)
(***************************************************************************)
destructor(t) ==
    /\ Callable(t)
    /\ \A u \in Threads : Idle(u)
    /\ stack' = [stack EXCEPT ![t] = <<NewFrame("~LittleFileSystem2", "destroyed", 0, Holds(t)), LifecycleFrame("unmount", 0, Holds(t))>>]
    /\ UNCHANGED <<scope, errno_h, ctor, mutex, _bd, _config, _lfs, bdInit, heap, opened, badFree>>

(***************************************************************************)
(* A finished call returns to its caller: the value goes to the caller's   *)
(* err and the call is noted in the caller's calls; a public call made by  *)
(* the application just ends.                                              *)
(***************************************************************************)
Return(t) ==
    /\ ~Idle(t)
    /\ Top(t).pc = "done"
    /\ stack' = [stack EXCEPT ![t] = IF Depth(t) = 1 THEN <<>> ELSE [SubSeq(@, 1, Depth(t) - 1) EXCEPT ![Depth(t) - 1].err = Top(t).res, ![Depth(t) - 1].calls = Append(@, Call(Top(t).fn, Top(t).res))]]
    /\ UNCHANGED <<scope, errno_h, ctor, mutex, _bd, _config, _lfs, bdInit, heap, opened, badFree>>

\* The steps of each lifecycle function, once called.
mount(t) == Running(t, "mount") /\ (mount_lock(t) \/ mount_init(t) \/ mount_config(t) \/ mount_engine_ret(t))
unmount(t) == Running(t, "unmount") /\ (unmount_lock(t) \/ unmount_engine_ret(t) \/ unmount_deinit(t) \/ unmount_unlock(t))
format(t) == Running(t, "format") /\ (format_init(t) \/ format_engine_ret(t) \/ format_deinit(t))
reformat(t) == Running(t, "reformat") /\ (reformat_lock(t) \/ reformat_after_unmount(t) \/ reformat_check_bd(t) \/ reformat_after_format(t) \/ reformat_after_mount(t))

Step(t) ==
    \/ \E bd \in Devices : mount_call(t, bd)
    \/ mount(t)
    \/ unmount_call(t)
    \/ unmount(t)
    \/ \E bd \in Devices, a \in FormatArgs : format_call(t, bd, a)
    \/ format(t)
    \/ \E bd \in Devices \cup {0} : reformat_call(t, bd)
    \/ reformat(t)
    \/ remove_call(t) \/ remove(t)
    \/ rename_call(t) \/ rename(t)
    \/ mkdir_call(t) \/ mkdir(t)
    \/ stat_call(t) \/ stat(t)
    \/ statvfs_call(t) \/ statvfs(t)
    \/ file_open_call(t) \/ file_open(t)
    \/ file_close_call(t) \/ file_close(t)
    \/ file_read_call(t) \/ file_read(t)
    \/ file_write_call(t) \/ file_write(t)
    \/ file_sync_call(t) \/ file_sync(t)
    \/ file_seek_call(t) \/ file_seek(t)
    \/ file_tell_call(t) \/ file_tell(t)
    \/ file_size_call(t) \/ file_size(t)
    \/ file_truncate_call(t) \/ file_truncate(t)
    \/ dir_open_call(t) \/ dir_open(t)
    \/ dir_close_call(t) \/ dir_close(t)
    \/ dir_read_call(t) \/ dir_read(t)
    \/ dir_seek_call(t) \/ dir_seek(t)
    \/ dir_tell_call(t) \/ dir_tell(t)
    \/ dir_rewind_call(t) \/ dir_rewind(t)
    \/ destructor(t)
    \/ Return(t)

Next == \E t \in AllThreads : Step(t)

Spec == Init /\ [][Next]_vars

SpecLifecycle == InitLifecycle /\ [][Next]_vars

SpecErrors == InitErrors /\ [][Next]_vars

(***************************************************************************)
(* The claims.                                                             *)
(***************************************************************************)
\* The thread is inside an engine call on the instance's _lfs (format's
\* engine call works on a local lfs2_t).
InEngine(t) == stack[t] # <<>> /\ Top(t).pc = "engine" /\ Top(t).fn # "format"
\* The thread is inside an engine call or about to make a device call.
AtCall(t) == stack[t] # <<>> /\ Top(t).pc \in {"engine", "init", "deinit"}
\* The thread's innermost call has returned (its value is in res).
Returned(t) == stack[t] # <<>> /\ Top(t).pc = "done"
\* No thread is inside a public operation.
NoCallInProgress == \A t \in AllThreads : Idle(t) \/ (Depth(t) = 1 /\ Top(t).pc \in {"done", "destroyed"})

\* C1: at most one thread at a time executes an engine call against the
\* instance's _lfs, whatever the interleaving of public operations.
C1_MutualExclusion == \A t, u \in AllThreads : InEngine(t) /\ InEngine(u) => t = u

\* C1 witness: one thread is inside an engine call while the other has called
\* an operation and waits for the lock.
C1_Witness == \E t, u \in AllThreads : t # u /\ InEngine(t) /\ stack[u] # <<>> /\ Top(u).pc = "lock" /\ Top(u).fn = "file_write"

\* C2 as stated: every public operation, format included, holds the lock
\* whenever it makes a block-device call or an engine call.
C2_EveryOperationLocksFirst == \A t \in AllThreads : AtCall(t) => Holds(t) > 0

\* C2 amended: every operation of the instance has taken the lock, once more
\* than its caller held it, before any block-device or engine call; the
\* static format takes no lock, so it runs under the lock only inside reformat.
C2_InstanceOperationsLockFirst == \A t \in AllThreads : AtCall(t) => IF Top(t).fn = "format" THEN Holds(t) = Top(t).base /\ (Depth(t) > 1 => Holds(t) > 0) ELSE Holds(t) = Top(t).base + 1

\* C2 witness: a format called directly is in lfs2_format, holding nothing,
\* while the other thread is inside an engine call under the lock.
C2_Witness == \E t, u \in AllThreads : t # u /\ At(t, "format", "engine") /\ Depth(t) = 1 /\ Holds(t) = 0 /\ InEngine(u)

\* C3: when a call returns, on any path, the thread holds the mutex as often
\* as when the call began; with no operation in progress the mutex is free.
C3_LockBalance == (\A t \in AllThreads : Returned(t) => Holds(t) = Top(t).base) /\ (NoCallInProgress => mutex = [owner |-> 0, count |-> 0])

\* C3 witness: the mount inside a reformat has returned an error and the
\* thread holds the mutex once, as reformat did before that call.
C3_Witness == \E t \in AllThreads : Depth(t) = 2 /\ At(t, "mount", "done") /\ Top(t).res # 0 /\ Top(t).base = 1 /\ Holds(t) = 1

\* C4 as stated: with no call in progress, each device's successful init()
\* calls minus its deinit() calls is 1 if the instance is mounted on it, else 0.
C4_InitDeinitPaired == NoCallInProgress => \A d \in AllDevices : bdInit[d] = IF _bd = d THEN 1 ELSE 0

\* C5 as stated: after every successful mount(bd) the geometry is the
\* constructor's values clamped against the device.
C5_GeometryFromConstructor == \A t \in AllThreads : (Depth(t) = 1 /\ At(t, "mount", "done") /\ Top(t).res = 0) => (_config.block_size = Max(ctor.block_size, get_erase_size(Top(t).bd)) /\ _config.cache_size = Max(ctor.cache_size, get_program_size(Top(t).bd)) /\ _config.block_count = bd_size(Top(t).bd) \div _config.block_size /\ _config.lookahead_size = Min(ctor.lookahead_size, 8 * ((_config.block_count + 63) \div 64)))

\* C6 as stated: when mount or reformat returns non-zero, _bd and _config are
\* what they were when the call began.
C6_FailedCallLeavesStateUnchanged == \A t \in AllThreads : (Depth(t) = 1 /\ Returned(t) /\ Top(t).fn \in {"mount", "reformat"} /\ Top(t).res # 0) => (_bd = Top(t).pre.bd /\ _config = Top(t).pre.config)

\* The negative errno the claims name for each of the nine engine errors.
ErrnoFor(e) ==
    CASE e = LFS2_ERR_IO -> -(errno_h.EIO)
      [] e = LFS2_ERR_NOENT -> -(errno_h.ENOENT)
      [] e = LFS2_ERR_EXIST -> -(errno_h.EEXIST)
      [] e = LFS2_ERR_NOTDIR -> -(errno_h.ENOTDIR)
      [] e = LFS2_ERR_ISDIR -> -(errno_h.EISDIR)
      [] e = LFS2_ERR_INVAL -> -(errno_h.EINVAL)
      [] e = LFS2_ERR_NOSPC -> -(errno_h.ENOSPC)
      [] e = LFS2_ERR_NOMEM -> -(errno_h.ENOMEM)
      [] e = LFS2_ERR_CORRUPT -> -(errno_h.EILSEQ)

\* The operations whose frame keeps the engine's result in err until "done".
EngineCallers == {"mount", "format", "remove", "rename", "mkdir", "stat", "statvfs", "file_open", "file_close", "file_read", "file_write", "file_sync", "file_seek", "file_tell", "file_size", "file_truncate", "dir_open", "dir_close", "dir_read", "dir_tell"}

\* C7 as stated: whenever the engine call of an operation fails with one of
\* the nine engine errors, the operation returns that error's negative errno
\* (unmount: res holds it once lfs2_unmount has returned).
C7_EveryOperationTranslates == \A t \in AllThreads : (stack[t] # <<>> /\ Top(t).err \in ListedErrs /\ ((Top(t).pc = "done" /\ Top(t).fn \in EngineCallers) \/ (Top(t).pc = "deinit" /\ Top(t).fn = "unmount"))) => Top(t).res = ErrnoFor(Top(t).err)

\* The operations that return lfs2_toerror of the engine's result.
TranslatingOps == {"remove", "rename", "mkdir", "file_read", "file_write", "file_sync", "file_seek", "file_tell", "file_size", "file_truncate", "dir_read", "dir_tell"}

\* C8: the translation maps 0 to 0, each of the nine engine errors to its
\* negative errno and everything else to itself; so the counts and positions
\* of file_read, file_write, file_seek, file_tell, file_size and dir_tell and
\* the 1 / 0 of dir_read come back as the engine gave them.
C8_TotalTranslation == \A t \in AllThreads : (Returned(t) /\ Top(t).fn \in TranslatingOps) => Top(t).res = (IF Top(t).err \in ListedErrs THEN ErrnoFor(Top(t).err) ELSE Top(t).err)

\* C8 witness: file_read has returned the count 84 the engine reported (the
\* magnitude of LFS2_ERR_CORRUPT), unchanged.
C8_Witness == \E t \in AllThreads : At(t, "file_read", "done") /\ Top(t).err = 84 /\ Top(t).res = 84

\* The handle objects that exist, and those an open in progress has
\* allocated and not yet handed over or freed.
Allocated == {h \in AllHandles : heap[h] # "free"}
Opening == {h \in AllHandles : \E t \in AllThreads : stack[t] # <<>> /\ Top(t).fn \in {"file_open", "dir_open"} /\ Top(t).pc \in {"lock", "engine", "finish"} /\ Top(t).h = h}

\* C9: the allocated handle objects are the handles opened and not yet
\* closed, plus those of opens still in progress; nothing is freed twice; an
\* open assigns *file / *dir exactly when the engine's open succeeded.
C9_HandleLifecycle == Allocated = opened \cup Opening /\ ~badFree /\ \A t \in AllThreads : (Returned(t) /\ Top(t).fn \in {"file_open", "dir_open"}) => ((Top(t).out = "assigned") <=> (Top(t).err = 0))

\* C9 witness: a file_close whose engine close failed has returned, and no
\* handle object is left allocated.
C9_Witness == \E t \in AllThreads : At(t, "file_close", "done") /\ Top(t).err # 0 /\ Allocated = {} /\ opened = {}

\* C10: once unmount has run its body, and when it has returned, _bd is
\* NULL, whatever lfs2_unmount and deinit reported; an unmount that found
\* _bd NULL returns 0 and has made no engine call and no device call.
C10_UnmountReleases == \A t \in AllThreads : (At(t, "unmount", "unlock") \/ At(t, "unmount", "done")) => (_bd = 0 /\ (Top(t).pre.bd = 0 => (Top(t).res = 0 /\ Top(t).calls = <<>>)))

\* C10 witness: the destructor's unmount, run on an instance that is not
\* mounted, has returned 0 without an engine call or a device call.
C10_Witness == \E t \in AllThreads : Depth(t) = 2 /\ stack[t][1].fn = "~LittleFileSystem2" /\ At(t, "unmount", "done") /\ Top(t).pre.bd = 0 /\ Top(t).res = 0 /\ Top(t).calls = <<>>

\* The device a reformat works on: its argument, or the device the instance
\* was mounted on when the argument is NULL.
Target(f) == IF f.arg # 0 THEN f.arg ELSE f.pre.bd
\* The member functions a reformat is to call, in order.
Plan(f) == IF Target(f) = 0 THEN <<>> ELSE (IF f.pre.bd # 0 THEN <<"unmount">> ELSE <<>>) \o <<"format", "mount">>
\* The calls c are the first steps of the plan p, each but the last having
\* returned 0.
StopsAtFirstFailure(c, p) == Len(c) <= Len(p) /\ \A i \in 1..Len(c) : c[i].fn = p[i] /\ (i < Len(c) => c[i].res = 0)

\* C11: reformat(bd) calls unmount (only if mounted), format of the target and
\* mount of the target, in this order, the target being bd, or the mounted
\* device when bd is NULL; it stops at the first call that fails and returns
\* that call's result; with no target it returns -ENODEV having called
\* nothing; when it returns 0 the instance is mounted on the target.
C11_ReformatOrder ==
    \A t \in AllThreads : (stack[t] # <<>> /\ stack[t][1].fn = "reformat" /\ stack[t][1].pc # "lock") =>
        LET f == stack[t][1] IN
        /\ StopsAtFirstFailure(f.calls, Plan(f))
        /\ (Depth(t) = 2 => (Top(t).fn = Plan(f)[Len(f.calls) + 1] /\ (Top(t).fn # "unmount" => Top(t).bd = Target(f))))
        /\ (f.pc = "done" =>
              /\ (Target(f) = 0 => (f.res = -ENODEV /\ f.calls = <<>>))
              /\ (Target(f) # 0 => (f.calls # <<>> /\ f.res = f.calls[Len(f.calls)].res /\ (f.res = 0 => Len(f.calls) = Len(Plan(f)))))
              /\ (f.res = 0 => (_bd = Target(f) /\ _lfs.mounted)))

\* C11 witness: reformat(NULL) of an instance mounted on device 2 has returned
\* 0 after unmount, format and mount, and the instance is mounted on device 2.
C11_Witness == \E t \in AllThreads : At(t, "reformat", "done") /\ Top(t).arg = 0 /\ Top(t).pre.bd = 2 /\ Top(t).res = 0 /\ Len(Top(t).calls) = 3 /\ _bd = 2

\* What the claims say an engine result is returned as: the negative errno of
\* a listed error, anything else as it is.
Translated(e) == IF e \in ListedErrs THEN ErrnoFor(e) ELSE e

\* C12: an unmount that found the instance mounted has, when its body is
\* done, called lfs2_unmount once and then deinit() once, whatever
\* lfs2_unmount returned; its result is the translated lfs2_unmount error if
\* there was one, else the deinit() error as it is if there was one, else 0.
C12_UnmountPrecedence ==
    \A t \in AllThreads : (Running(t, "unmount") /\ Top(t).pc # "lock" /\ Top(t).pre.bd # 0) =>
        LET f == Top(t) IN
        /\ (f.pc = "engine" => f.calls = <<>>)
        /\ (f.pc = "deinit" => (Len(f.calls) = 1 /\ f.calls[1].fn = "lfs2_unmount"))
        /\ (f.pc \in {"unlock", "done"} =>
              /\ Len(f.calls) = 2 /\ f.calls[1].fn = "lfs2_unmount" /\ f.calls[2].fn = "deinit"
              /\ f.res = (IF f.calls[1].res # 0 THEN Translated(f.calls[1].res) ELSE IF f.calls[2].res # 0 THEN f.calls[2].res ELSE 0))

\* C12 witness: an unmount has returned -EILSEQ after lfs2_unmount failed with
\* LFS2_ERR_CORRUPT and the deinit() that followed failed too.
C12_Witness == \E t \in AllThreads : At(t, "unmount", "done") /\ Len(Top(t).calls) = 2 /\ Top(t).calls[1] = Call("lfs2_unmount", LFS2_ERR_CORRUPT) /\ Top(t).calls[2] = Call("deinit", BD_ERROR_DEVICE_ERROR) /\ Top(t).res = -(errno_h.EILSEQ)

\* The thread is inside reformat, past the lock and not yet returned: from
\* its internal unmount to the return of its internal mount.
InsideReformat(t) == stack[t] # <<>> /\ stack[t][1].fn = "reformat" /\ stack[t][1].pc \in {"after_unmount", "check_bd", "after_format", "after_mount"}

\* C13: while a thread is inside reformat, from its internal unmount to the
\* return of its internal mount, it holds the mutex and no other thread is
\* inside an engine call on the instance.
C13_ReformatAtomic == \A t, u \in AllThreads : (InsideReformat(t) /\ u # t) => (Holds(t) >= 1 /\ ~InEngine(u))

\* C13 witness: a reformat of a mounted instance is inside lfs2_format, after
\* its unmount and before its mount, while the other thread has called
\* file_read and waits for the lock.
C13_Witness == \E t, u \in AllThreads : u # t /\ InsideReformat(t) /\ stack[t][1].pre.bd # 0 /\ At(t, "format", "engine") /\ ~_lfs.mounted /\ At(u, "file_read", "lock")

(***************************************************************************)
(* Progress. A thread that is inside a call takes its next step: every    *)
(* device call and engine call returns, and the mutex is granted fairly,   *)
(* so a thread that finds the mutex free again and again gets it. Whether  *)
(* and when the application calls an operation is left open.               *)
(***************************************************************************)
Proceed(t) ==
    \/ mount(t) \/ unmount(t) \/ format(t) \/ reformat(t)
    \/ remove(t) \/ rename(t) \/ mkdir(t) \/ stat(t) \/ statvfs(t)
    \/ file_open(t) \/ file_close(t) \/ file_read(t) \/ file_write(t) \/ file_sync(t)
    \/ file_seek(t) \/ file_tell(t) \/ file_size(t) \/ file_truncate(t)
    \/ dir_open(t) \/ dir_close(t) \/ dir_read(t) \/ dir_seek(t) \/ dir_tell(t) \/ dir_rewind(t)
    \/ Return(t)

SpecFair == InitFair /\ [][Next]_vars /\ \A t \in AllThreads : SF_vars(Proceed(t))

\* The thread is in no call (the destructor, once run, leaves its mark).
Finished(t) == Idle(t) \/ (Depth(t) = 1 /\ Top(t).pc = "destroyed")
\* The thread has called an operation that has yet to take the lock.
Waiting(t) == stack[t] # <<>> /\ Top(t).pc = "lock"

\* C14: every operation a thread has called eventually returns, reformat
\* with its nested unmount and mount included; and a thread that waits for
\* the mutex stops waiting only by taking it, so that, returning eventually,
\* it eventually holds it.
C14_EventualCompletion == (\A t \in AllThreads : ~Finished(t) ~> Finished(t)) /\ [][\A t \in AllThreads : (Waiting(t) /\ ~Waiting(t)') => Holds(t)' >= 1]_vars

\* C14 witness: the mount called by reformat has taken the mutex a second
\* time in the same thread, while the other thread waits for it.
C14_Witness == \E t, u \in AllThreads : u # t /\ Depth(t) = 2 /\ stack[t][1].fn = "reformat" /\ At(t, "mount", "init") /\ Holds(t) = 2 /\ Waiting(u)

\* The operations that work on paths, files and directories of the mounted
\* filesystem.
FilesystemOps == {"remove", "rename", "mkdir", "stat", "statvfs", "file_open", "file_close", "file_read", "file_write", "file_sync", "file_seek", "file_tell", "file_size", "file_truncate", "dir_open", "dir_close", "dir_read", "dir_seek", "dir_tell", "dir_rewind"}

\* C15 as stated: a path, file or directory operation is inside an engine
\* call only while the instance is mounted (lfs2_mount has succeeded and no
\* unmount has happened since).
C15_EngineOnlyWhenMounted == \A t \in AllThreads : (InEngine(t) /\ Top(t).fn \in FilesystemOps) => (_lfs.mounted /\ _bd # 0)

\* A mount has returned the error of bd->init(), the only call it made.
FailedAtInit(t) == At(t, "mount", "done") /\ Len(Top(t).calls) = 1 /\ Top(t).calls[1].fn = "init" /\ Top(t).calls[1].res # 0
\* The three stored sizes are what the thread's call found.
SizesAsFound(t) == _config.block_size = Top(t).pre.config.block_size /\ _config.cache_size = Top(t).pre.config.cache_size /\ _config.lookahead_size = Top(t).pre.config.lookahead_size

\* C16: no step of any mount or reformat, succeeding or failing, lowers the
\* stored block_size or cache_size or raises the stored lookahead_size; and
\* when a mount has failed at bd->init() the three are what the call found.
C16_DriftMonotone == [][_config'.block_size >= _config.block_size /\ _config'.cache_size >= _config.cache_size /\ _config'.lookahead_size <= _config.lookahead_size /\ (\A t \in AllThreads : FailedAtInit(t) => SizesAsFound(t))']_vars

\* C16 witness: a second mount, on a device with larger erase blocks, has
\* raised the block_size that an earlier mount had stored, and failed at
\* lfs2_mount.
C16_Witness == \E t \in AllThreads : At(t, "mount", "done") /\ Top(t).res # 0 /\ Len(Top(t).calls) = 2 /\ Top(t).pre.config.block_count # 0 /\ _config.block_size > Top(t).pre.config.block_size /\ _config.lookahead_size <= Top(t).pre.config.lookahead_size

\* C17 as stated: when statvfs has returned 0, f_bsize, f_frsize, f_blocks and
\* the block_count behind f_bfree and f_bavail are those of the configuration
\* that was in effect when lfs2_fs_size returned in_use, whatever another
\* thread's mount or reformat has done since.
C17_StatvfsSnapshot == \A t \in AllThreads : (At(t, "statvfs", "done") /\ Top(t).res = 0 /\ Top(t).err >= 0) => (Top(t).st.f_bsize = Top(t).cfg.block_size /\ Top(t).st.f_frsize = Top(t).cfg.block_size /\ Top(t).st.f_blocks = Top(t).cfg.block_count /\ Top(t).st.f_bfree = Top(t).cfg.block_count - Top(t).err /\ Top(t).st.f_bavail = Top(t).cfg.block_count - Top(t).err)

\* C18 as stated: when statvfs on a mounted instance has returned 0, f_blocks
\* is block_count, f_bfree and f_bavail are block_count - in_use without
\* unsigned wrap-around, and 0 <= f_bfree <= f_blocks; when lfs2_fs_size
\* returned a negative in_use, statvfs has returned that value and *st is all
\* zero.
C18_StatvfsArithmetic == \A t \in AllThreads : (At(t, "statvfs", "done") /\ _lfs.mounted) => IF Top(t).err < 0 THEN Top(t).res = Top(t).err /\ Top(t).st = NoStatvfs ELSE (Top(t).res = 0 /\ Top(t).st.f_blocks = _config.block_count /\ Top(t).st.f_bfree = _config.block_count - Top(t).err /\ Top(t).st.f_bavail = Top(t).st.f_bfree /\ ~Top(t).st.wrapped /\ 0 <= Top(t).st.f_bfree /\ Top(t).st.f_bfree <= Top(t).st.f_blocks)

\* C19 as stated: when dir_read has returned, *ent holds the engine's entry
\* exactly when lfs2_dir_read returned 1 and is unchanged otherwise; when stat
\* has returned, *st holds the engine's data when lfs2_stat returned 0 and is
\* unchanged when it returned an error.
C19_OutputsFromEngine == \A t \in AllThreads : /\ At(t, "dir_read", "done") => Top(t).out = (IF Top(t).err = 1 THEN "engine" ELSE "unchanged")
                                               /\ At(t, "stat", "done") => Top(t).out = (IF Top(t).err = 0 THEN "engine" ELSE "unchanged")

=============================================================================
